---- MODULE Spec2Model ----
(***************************************************************************)
(* A model of fetch_paper_info.py: the command-line program main() that    *)
(* resolves a paper link (or title) into one formatted citation line, and  *)
(* the pure formatting functions it prints with.                           *)
(*                                                                         *)
(* Python values are tagged records (PyStr, PyInt, PyNone) so that the     *)
(* 'N/A' sentinel, an integer count and a JSON null stay distinct.  A      *)
(* Python str is a sequence of one-character strings.                      *)
(***************************************************************************)
EXTENDS Integers, Sequences, FiniteSets, TLC

VARIABLES
    args,          \* argparse namespace: url, max_authors, test, google_scholar, use_google_scholar_citations
    pc,            \* position of main()
    source,        \* first component of parse_url's result
    paper_info,    \* main's local paper_info (NoInfo models None)
    primary_info,  \* history: paper_info as the primary adapter returned it
    calls,         \* history: the HTTP requests issued so far, in order
    stdout,        \* lines printed to standard output
    stderr,        \* diagnostics main prints to standard error (the adapters' own warnings are not recorded)
    exit_status,   \* the process's exit status once pc = "done"; 1 after sys.exit(1)
    fn_pc,         \* position of a stand-alone call of a formatting function
    fn_authors,    \* its authors argument
    fn_max,        \* its max_authors argument
    fn_result      \* its return value

vars == <<args, pc, source, paper_info, primary_info, calls, stdout, stderr,
          exit_status, fn_pc, fn_authors, fn_max, fn_result>>

main_vars == <<args, pc, source, paper_info, primary_info, calls, stdout, stderr, exit_status>>

fn_vars == <<fn_pc, fn_authors, fn_max, fn_result>>

-----------------------------------------------------------------------------
(* Bounds of the model *)

\* --max-authors is drawn from 0..MaxAuthorsArg
MaxAuthorsArg == 3

\* author lists given to format_authors on its own have at most MaxListLen names
MaxListLen == 3

-----------------------------------------------------------------------------
(* Python values *)

PyStr(s) == [t |-> "str", n |-> 0, s |-> s]

PyInt(n) == [t |-> "int", n |-> n, s |-> <<>>]

PyNone == [t |-> "none", n |-> 0, s |-> <<>>]

\* bool(v) for the values the program tests for truth
Truthy(v) == \/ v.t = "str" /\ v.s # <<>>
             \/ v.t = "int" /\ v.n # 0

DigitChar == <<"0", "1", "2", "3", "4", "5", "6", "7", "8", "9">>

RECURSIVE Decimal(_)
Decimal(n) == IF n < 10 THEN <<DigitChar[n + 1]>>
              ELSE Decimal(n \div 10) \o <<DigitChar[(n % 10) + 1]>>

S_NA == <<"N", "/", "A">>

S_Unknown == <<"U", "n", "k", "n", "o", "w", "n">>

S_UnknownAuthors == <<"U", "n", "k", "n", "o", "w", "n", " ", "A", "u", "t", "h", "o", "r", "s">>

S_None == <<"N", "o", "n", "e">>

S_arXiv == <<"a", "r", "X", "i", "v">>

S_OpenReview == <<"O", "p", "e", "n", "R", "e", "v", "i", "e", "w">>

S_ICLR == <<"I", "C", "L", "R">>

S_NeurIPS == <<"N", "e", "u", "r", "I", "P", "S">>

S_ICML == <<"I", "C", "M", "L">>

S_NAACL == <<"N", "A", "A", "C", "L">>

S_2017 == <<"2", "0", "1", "7">>

S_2019 == <<"2", "0", "1", "9">>

S_2021 == <<"2", "0", "2", "1">>

S_Title1 == <<"A", "t", "t", "e", "n", "t", "i", "o", "n", " ", "I", "s", " ", "A", "l", "l", " ", "Y", "o", "u", " ", "N", "e", "e", "d">>

S_Title2 == <<"B", "E", "R", "T", ":", " ", "P", "r", "e", "-", "t", "r", "a", "i", "n", "i", "n", "g", " ", "o", "f", " ", "D", "e", "e", "p", " ", "B", "i", "d", "i", "r", "e", "c", "t", "i", "o", "n", "a", "l", " ", "T", "r", "a", "n", "s", "f", "o", "r", "m", "e", "r", "s", " ", "f", "o", "r", " ", "L", "a", "n", "g", "u", "a", "g", "e", " ", "U", "n", "d", "e", "r", "s", "t", "a", "n", "d", "i", "n", "g">>

S_Title3 == <<"L", "e", "a", "r", "n", "i", "n", "g", " ", "T", "r", "a", "n", "s", "f", "e", "r", "a", "b", "l", "e", " ", "V", "i", "s", "u", "a", "l", " ", "M", "o", "d", "e", "l", "s", " ", "F", "r", "o", "m", " ", "N", "a", "t", "u", "r", "a", "l", " ", "L", "a", "n", "g", "u", "a", "g", "e", " ", "S", "u", "p", "e", "r", "v", "i", "s", "i", "o", "n">>

TestAuthors1 ==
     <<PyStr(<<"A", "s", "h", "i", "s", "h", " ", "V", "a", "s", "w", "a", "n", "i">>),
       PyStr(<<"N", "o", "a", "m", " ", "S", "h", "a", "z", "e", "e", "r">>),
       PyStr(<<"N", "i", "k", "i", " ", "P", "a", "r", "m", "a", "r">>),
       PyStr(<<"J", "a", "k", "o", "b", " ", "U", "s", "z", "k", "o", "r", "e", "i", "t">>),
       PyStr(<<"L", "l", "i", "o", "n", " ", "J", "o", "n", "e", "s">>),
       PyStr(<<"A", "i", "d", "a", "n", " ", "N", ".", " ", "G", "o", "m", "e", "z">>),
       PyStr(<<"L", "u", "k", "a", "s", "z", " ", "K", "a", "i", "s", "e", "r">>),
       PyStr(<<"I", "l", "l", "i", "a", " ", "P", "o", "l", "o", "s", "u", "k", "h", "i", "n">>)>>

TestAuthors2 ==
     <<PyStr(<<"J", "a", "c", "o", "b", " ", "D", "e", "v", "l", "i", "n">>),
       PyStr(<<"M", "i", "n", "g", "-", "W", "e", "i", " ", "C", "h", "a", "n", "g">>),
       PyStr(<<"K", "e", "n", "t", "o", "n", " ", "L", "e", "e">>),
       PyStr(<<"K", "r", "i", "s", "t", "i", "n", "a", " ", "T", "o", "u", "t", "a", "n", "o", "v", "a">>)>>

TestAuthors3 ==
     <<PyStr(<<"A", "l", "e", "c", " ", "R", "a", "d", "f", "o", "r", "d">>),
       PyStr(<<"J", "o", "n", "g", " ", "W", "o", "o", "k", " ", "K", "i", "m">>),
       PyStr(<<"C", "h", "r", "i", "s", " ", "H", "a", "l", "l", "a", "c", "y">>),
       PyStr(<<"A", "d", "i", "t", "y", "a", " ", "R", "a", "m", "e", "s", "h">>),
       PyStr(<<"G", "a", "b", "r", "i", "e", "l", " ", "G", "o", "h">>),
       PyStr(<<"S", "a", "n", "d", "h", "i", "n", "i", " ", "A", "g", "a", "r", "w", "a", "l">>),
       PyStr(<<"G", "i", "r", "i", "s", "h", " ", "S", "a", "s", "t", "r", "y">>),
       PyStr(<<"A", "m", "a", "n", "d", "a", " ", "A", "s", "k", "e", "l", "l">>)>>
-----------------------------------------------------------------------------
(* Python str operations used by the formatter *)

Whitespace == {" "}

\* str.split(): the maximal runs of non-whitespace characters, in order
RECURSIVE split_from(_, _, _, _)
split_from(s, i, cur, acc) ==
    IF i > Len(s)
    THEN IF cur = <<>> THEN acc ELSE Append(acc, cur)
    ELSE IF s[i] \in Whitespace
         THEN split_from(s, i + 1, <<>>, IF cur = <<>> THEN acc ELSE Append(acc, cur))
         ELSE split_from(s, i + 1, Append(cur, s[i]), acc)

split(s) == split_from(s, 1, <<>>, <<>>)

\* sep.join(xs)
RECURSIVE join(_, _)
join(sep, xs) ==
    IF xs = <<>> THEN <<>>
    ELSE IF Len(xs) = 1 THEN xs[1]
    ELSE xs[1] \o sep \o join(sep, Tail(xs))

\* s.rstrip(ch)
RECURSIVE rstrip(_, _)
rstrip(s, ch) ==
    IF s # <<>> /\ s[Len(s)] = ch THEN rstrip(SubSeq(s, 1, Len(s) - 1), ch) ELSE s

\* str(v) as an f-string renders it
Str(v) == CASE v.t = "str" -> v.s
            [] v.t = "int" -> Decimal(v.n)
            [] OTHER -> S_None

-----------------------------------------------------------------------------
(* format_authors *)

\* '. '.join([p[0] for p in parts[:-1]])
Initials(parts) ==
    join(<<".", " ">>, [i \in 1..(Len(parts) - 1) |-> <<parts[i][1]>>])

\* one iteration of the loop of the joining branch: the entry appended to formatted
FormattedEntry(author) ==
    LET parts == split(author)
    IN  IF Len(parts) > 1
        THEN parts[Len(parts)] \o <<",", " ">> \o Initials(parts) \o <<".">>
        ELSE author

\* a bug: three or more authors joined without the comma before "and"
JoinFormatted_NoOxford(formatted) ==
    IF Len(formatted) = 1 THEN formatted[1]
    ELSE join(<<",", " ">>, SubSeq(formatted, 1, Len(formatted) - 1))
         \o <<" ", "a", "n", "d", " ">> \o formatted[Len(formatted)]

\* result, from the list formatted, before the trailing periods are stripped
JoinFormatted(formatted) ==
    IF Len(formatted) = 1 THEN formatted[1]
    ELSE IF Len(formatted) = 2
         THEN formatted[1] \o <<" ", "a", "n", "d", " ">> \o formatted[2]
         ELSE join(<<",", " ">>, SubSeq(formatted, 1, Len(formatted) - 1))
              \o <<",", " ", "a", "n", "d", " ">> \o formatted[Len(formatted)]

\* the branch len(authors) <= max_authors
JoinedAuthors(authors) ==
    rstrip(JoinFormatted([i \in 1..Len(authors) |-> FormattedEntry(authors[i].s)]), ".")

\* a bug: the surname is taken from the front of the name
FirstAuthorEtAl_FirstToken(authors) ==
    LET parts == split(authors[1].s)
    IN  IF Len(parts) > 1
        THEN parts[1] \o <<",", " ">> \o (Initials(parts) \o <<".">>)
             \o <<" ", "e", "t", " ", "a", "l">>
        ELSE authors[1].s \o <<" ", "e", "t", " ", "a", "l">>

\* the branch len(authors) > max_authors
FirstAuthorEtAl(authors) ==
    LET parts == split(authors[1].s)
    IN  IF Len(parts) > 1
        THEN parts[Len(parts)] \o <<",", " ">> \o (Initials(parts) \o <<".">>)
             \o <<" ", "e", "t", " ", "a", "l">>
        ELSE authors[1].s \o <<" ", "e", "t", " ", "a", "l">>

format_authors(authors, max_authors) ==
    IF authors = <<>> THEN S_UnknownAuthors
    ELSE IF Len(authors) <= max_authors THEN JoinedAuthors(authors)
    ELSE FirstAuthorEtAl(authors)

\* author.split() raises AttributeError on an author that is None; the joining
\* branch splits every author, the other branch only the first
format_authors_raises(authors, max_authors) ==
    /\ authors # <<>>
    /\ IF Len(authors) <= max_authors
       THEN \E i \in 1..Len(authors) : authors[i].t # "str"
       ELSE authors[1].t # "str"

-----------------------------------------------------------------------------
(* format_output and the records it is given *)

S_ErrorCouldNotFetch ==
    <<"E", "r", "r", "o", "r", ":", " ", "C", "o", "u", "l", "d", " ", "n", "o", "t", " ",
      "f", "e", "t", "c", "h", " ", "p", "a", "p", "e", "r", " ",
      "i", "n", "f", "o", "r", "m", "a", "t", "i", "o", "n">>

\* a paper_info dict; some = FALSE models None
Info(title, authors, year, venue, citations) ==
    [some |-> TRUE, title |-> title, authors |-> authors, year |-> year,
     venue |-> venue, citations |-> citations]

NoInfo == [some |-> FALSE, title |-> PyNone, authors |-> <<>>, year |-> PyNone,
           venue |-> PyNone, citations |-> PyNone]

\* a bug: the period after the author text is left to format_authors
format_output_NoPeriod(info, max_authors) ==
    IF ~info.some THEN S_ErrorCouldNotFetch ELSE
    <<"*", "*">> \o Str(info.title) \o <<"*", "*", " ">>
    \o format_authors(info.authors, max_authors)
    \o <<" ">> \o Str(info.year)
    \o <<".", " ">> \o Str(info.venue)
    \o <<".", " ", "C", "i", "t", "a", "t", "i", "o", "n", "s", ":", " ">> \o Str(info.citations)

format_output(info, max_authors) ==
    IF ~info.some THEN S_ErrorCouldNotFetch ELSE
    <<"*", "*">> \o Str(info.title) \o <<"*", "*", " ">>
    \o format_authors(info.authors, max_authors)
    \o <<".", " ">> \o Str(info.year)
    \o <<".", " ">> \o Str(info.venue)
    \o <<".", " ", "C", "i", "t", "a", "t", "i", "o", "n", "s", ":", " ">> \o Str(info.citations)

TestIds == {"1", "2", "3"}

get_test_paper_info(test_id) ==
    CASE test_id = "1" -> Info(PyStr(S_Title1), TestAuthors1, PyStr(S_2017), PyStr(S_NeurIPS), PyInt(98234))
      [] test_id = "2" -> Info(PyStr(S_Title2), TestAuthors2, PyStr(S_2019), PyStr(S_NAACL), PyInt(67890))
      [] test_id = "3" -> Info(PyStr(S_Title3), TestAuthors3, PyStr(S_2021), PyStr(S_ICML), PyInt(15678))
      [] OTHER -> NoInfo

-----------------------------------------------------------------------------
(* parse_url *)

\* the order in which parse_url tries its four patterns
PatternOrder == <<"arxiv", "semantic_scholar", "openreview", "doi">>

PatternNames == {PatternOrder[i] : i \in 1..Len(PatternOrder)}

\* A command-line input string, by what re.search finds in it: the set of
\* patterns that match, and the string as a test id ("-" when it is none).
Inputs ==
    [matches : SUBSET PatternNames, test_id : {"-"}]
    \cup [matches : {{}}, test_id : TestIds]

\* the source tag parse_url returns; NoSource models (None, None)
NoSource == "None"

\* a bug: an input no pattern matches falls through to the last branch
parse_url_Fallthrough(url) ==
    IF \E i \in 1..Len(PatternOrder) : PatternOrder[i] \in url.matches
    THEN PatternOrder[CHOOSE i \in 1..Len(PatternOrder) :
                        /\ PatternOrder[i] \in url.matches
                        /\ \A j \in 1..(i - 1) : PatternOrder[j] \notin url.matches]
    ELSE "doi"

\* a bug: the patterns are tried without returning at the first match, so the
\* last pattern that matches decides
parse_url_LastMatch(url) ==
    IF \E i \in 1..Len(PatternOrder) : PatternOrder[i] \in url.matches
    THEN PatternOrder[CHOOSE i \in 1..Len(PatternOrder) :
                        /\ PatternOrder[i] \in url.matches
                        /\ \A j \in (i + 1)..Len(PatternOrder) : PatternOrder[j] \notin url.matches]
    ELSE NoSource

parse_url(url) ==
    IF \E i \in 1..Len(PatternOrder) : PatternOrder[i] \in url.matches
    THEN PatternOrder[CHOOSE i \in 1..Len(PatternOrder) :
                        /\ PatternOrder[i] \in url.matches
                        /\ \A j \in 1..(i - 1) : PatternOrder[j] \notin url.matches]
    ELSE NoSource

-----------------------------------------------------------------------------
(* What the remote services can answer *)

S_Paper == <<"P", "a", "p", "e", "r">>

NA == PyStr(S_NA)

\* a key absent from a JSON object
Missing == [t |-> "missing", n |-> 0, s |-> <<>>]

\* dict.get(key, default)
Get(v, default) == IF v = Missing THEN default ELSE v

Name1 == PyStr(<<"A", "l", "e", "c", " ", "R", "a", "d", "f", "o", "r", "d">>)

Name2 == PyStr(<<"J", "o", "n", "g", " ", "W", "o", "o", "k", " ", "K", "i", "m">>)

Name3 == PyStr(<<"P", "l", "a", "t", "o">>)

\* author lists a source can report
AuthorSamples == {<<>>, <<Name1>>, <<Name1, Name2>>, <<Name3, Name2, Name1>>}

GoogleCounts == {0, 42}

SemanticCounts == {7}

\* get_citations_from_google_scholar's return values
GoogleScholarCitationResults == {NA} \cup {PyInt(n) : n \in GoogleCounts}

\* The JSON a Semantic Scholar paper or search request answers with, as far as
\* get_citations_from_semantic_scholar reads it; ok = FALSE is every failure
\* (status, transport, malformed body, empty search result).
SemanticScholarCitationPayloads ==
    {[ok |-> FALSE, citationCount |-> Missing]}
    \cup [ok : {TRUE}, citationCount : {Missing, PyNone} \cup {PyInt(n) : n \in SemanticCounts}]

get_citations_from_semantic_scholar(resp) ==
    IF resp.ok THEN Get(resp.citationCount, NA) ELSE NA

\* The JSON get_semantic_scholar_info reads; authors holds each author's
\* 'name' entry (Missing when the author object has none).
SemanticScholarInfoPayloads ==
    {[ok |-> FALSE, title |-> Missing, authors |-> <<>>, year |-> Missing,
      venue |-> Missing, publicationVenue |-> Missing, citationCount |-> Missing]}
    \cup [ok : {TRUE},
          title : {Missing, PyNone, PyStr(S_Paper)},
          authors : {<<>>, <<Name1, Name2>>, <<Name3, Name2, Name1>>, <<Name1, Missing>>},
          year : {Missing, PyNone, PyInt(2017)},
          venue : {Missing, PyStr(<<>>), PyStr(S_ICML)},
          publicationVenue : {Missing, PyStr(S_NeurIPS)},
          citationCount : {Missing, PyNone} \cup {PyInt(n) : n \in SemanticCounts}]

get_semantic_scholar_info(resp) ==
    IF ~resp.ok THEN NoInfo
    ELSE LET venue0 == Get(resp.venue, PyStr(S_Unknown))
             venue1 == IF ~Truthy(venue0) /\ Truthy(resp.publicationVenue)
                       THEN resp.publicationVenue ELSE venue0
             venue  == IF ~Truthy(venue1) THEN PyStr(S_Unknown) ELSE venue1
         IN  Info(Get(resp.title, PyStr(S_Unknown)),
                  [i \in 1..Len(resp.authors) |-> Get(resp.authors[i], PyNone)],
                  PyStr(Str(Get(resp.year, NA))),
                  venue,
                  Get(resp.citationCount, NA))

\* What fetch_arxiv_info_from_web parses out of the abstract page; NoInfo is
\* every failure (status, no title element, exception).
ArxivWebResults ==
    {NoInfo}
    \cup {Info(PyStr(S_Paper), a, y, v, NA) :
            a \in AuthorSamples, y \in {NA, PyStr(S_2017)}, v \in {PyStr(S_arXiv), PyStr(S_NeurIPS)}}

\* What fetch_arxiv_info parses out of the API's Atom feed
ArxivApiResults ==
    {NoInfo} \cup {Info(PyStr(S_Paper), a, PyStr(S_2017), PyStr(S_arXiv), NA) : a \in AuthorSamples}

\* What search_google_scholar parses out of the first search result
GoogleScholarSearchResults ==
    {NoInfo}
    \cup {Info(PyStr(S_Paper), a, y, v, c) :
            a \in AuthorSamples, y \in {NA, PyStr(S_2017)},
            v \in {PyStr(S_Unknown), PyStr(S_arXiv)}, c \in GoogleScholarCitationResults}

\* sub in s
Contains(s, sub) ==
    \E i \in 1..(Len(s) - Len(sub) + 1) : SubSeq(s, i, i + Len(sub) - 1) = sub

Digits == {DigitChar[i] : i \in 1..Len(DigitChar)}

\* the positions where re.search(r'20\d{2}', s) can match
YearMatches(s) ==
    {i \in 1..(Len(s) - 3) :
        s[i] = "2" /\ s[i + 1] = "0" /\ s[i + 2] \in Digits /\ s[i + 3] \in Digits}

InvitationSamples ==
    {<<>>,
     <<"I", "C", "L", "R", ".", "c", "c", "/", "2", "0", "2", "1">>,
     <<"N", "e", "u", "r", "I", "P", "S", "/", "2", "0", "x", "/", "I", "C", "M", "L">>}

\* The first note of the OpenReview answer, as far as fetch_openreview_info
\* reads it; ok = FALSE is every failure (status, no notes, exception).
OpenReviewPayloads ==
    {[ok |-> FALSE, title |-> Missing, authors |-> <<>>, invitation |-> <<>>]}
    \cup [ok : {TRUE},
          title : {Missing, PyStr(<<>>), PyStr(S_Paper)},
          authors : AuthorSamples,
          invitation : InvitationSamples]

\* fetch_openreview_info's title, year and venue_name
OpenReviewTitle(resp) == Get(resp.title, PyStr(S_Unknown))

OpenReviewYear(resp) ==
    LET m == YearMatches(resp.invitation)
    IN  IF m = {} THEN NA
        ELSE LET i == CHOOSE k \in m : \A j \in m : k <= j
             IN  PyStr(SubSeq(resp.invitation, i, i + 3))

OpenReviewVenue(resp) ==
    IF Contains(resp.invitation, S_ICLR) THEN PyStr(S_ICLR)
    ELSE IF Contains(resp.invitation, S_NeurIPS) THEN PyStr(S_NeurIPS)
    ELSE IF Contains(resp.invitation, S_ICML) THEN PyStr(S_ICML)
    ELSE PyStr(S_OpenReview)

\* the dict fetch_openreview_info returns, given the citations it obtained
OpenReviewInfo(resp, citations) ==
    Info(OpenReviewTitle(resp), resp.authors, OpenReviewYear(resp), OpenReviewVenue(resp), citations)

-----------------------------------------------------------------------------
(* main() *)

Request(fn, host, ret) == [fn |-> fn, host |-> host, ret |-> ret]

GS == "scholar.google.com"

SS == "api.semanticscholar.org"

Args ==
    [url : Inputs, max_authors : 0..MaxAuthorsArg, test : BOOLEAN,
     google_scholar : BOOLEAN, use_google_scholar_citations : BOOLEAN]

FnIdle == /\ fn_pc = "idle"
          /\ fn_authors = <<>>
          /\ fn_max = 0
          /\ fn_result = <<>>

Init ==
    /\ args \in Args
    /\ pc = "start"
    /\ source = NoSource
    /\ paper_info = NoInfo
    /\ primary_info = NoInfo
    /\ calls = <<>>
    /\ stdout = <<>>
    /\ stderr = <<>>
    /\ exit_status = 0
    /\ FnIdle

\* sys.exit(1) after a diagnostic on the error stream
Fail(msg) ==
    /\ stderr' = Append(stderr, msg)
    /\ exit_status' = 1
    /\ pc' = "done"

\* output = format_output(paper_info, ...); print(output); the process ends.
\* An exception format_authors raises is caught nowhere: traceback, status 1.
PrintAndExit(info) ==
    IF format_authors_raises(info.authors, args.max_authors)
    THEN /\ Fail("Traceback")
         /\ UNCHANGED stdout
    ELSE /\ stdout' = Append(stdout, format_output(info, args.max_authors))
         /\ exit_status' = 0
         /\ pc' = "done"
         /\ UNCHANGED stderr

\* if args.test: ... return
TestMode ==
    /\ pc = "start"
    /\ args.test
    /\ LET info == get_test_paper_info(args.url.test_id)
       IN  /\ paper_info' = info
           /\ IF ~info.some
              THEN Fail("Error: Test ID not found") /\ UNCHANGED stdout
              ELSE PrintAndExit(info)
    /\ UNCHANGED <<args, source, primary_info, calls, fn_vars>>

\* if args.google_scholar: ... return
GoogleScholarMode ==
    /\ pc = "start"
    /\ ~args.test
    /\ args.google_scholar
    /\ \E info \in GoogleScholarSearchResults :
         /\ calls' = Append(calls, Request("search_google_scholar", GS, PyNone))
         /\ paper_info' = info
         /\ primary_info' = info
         /\ IF ~info.some
            THEN Fail("Error: Could not find paper on Google Scholar") /\ UNCHANGED stdout
            ELSE PrintAndExit(info)
    /\ UNCHANGED <<args, source, fn_vars>>

\* source, paper_id = parse_url(args.url); if not source: ... sys.exit(1)
ParseUrl ==
    /\ pc = "start"
    /\ ~args.test
    /\ ~args.google_scholar
    /\ source' = parse_url(args.url)
    /\ IF source' = NoSource
       THEN Fail("Error: Unsupported URL format")
       ELSE pc' = "fetch" /\ UNCHANGED <<stderr, exit_status>>
    /\ UNCHANGED <<args, paper_info, primary_info, calls, stdout, fn_vars>>

\* paper_info['citations'] after "if citations != 'N/A': paper_info['citations'] = citations"
Updated(info, citations) ==
    IF citations # NA THEN [info EXCEPT !.citations = citations] ELSE info

\* a bug: the flag is ignored, Semantic Scholar always comes first
CitationOrder_Hardcoded(use_google_scholar_citations) ==
    <<"semantic_scholar", "google_scholar">>

\* a bug: the fallback asks the source that has just failed once more
CitationOrder_Retry(use_google_scholar_citations) ==
    IF use_google_scholar_citations
    THEN <<"google_scholar", "google_scholar">>
    ELSE <<"semantic_scholar", "semantic_scholar">>

\* the two citation sources of the arxiv branch, in the order the flag selects
CitationOrder(use_google_scholar_citations) ==
    IF use_google_scholar_citations
    THEN <<"google_scholar", "semantic_scholar">>
    ELSE <<"semantic_scholar", "google_scholar">>

\* a bug: the second source is asked even after the first gave a count
AfterFirstCitation_NoShortCircuit(citations) == "second_citation"

\* a bug: the chain gives up after its first source
AfterFirstCitation_GiveUp(citations) == "output"

\* where the arxiv branch goes after its first citation source answered
AfterFirstCitation(citations) ==
    IF citations # NA THEN "output" ELSE "second_citation"

\* a bug: every branch asks for citations whatever the record already holds
WantsCitations_Always(src, info, use_google_scholar_citations) == info.some

\* the conditions under which main, holding the primary adapter's info, goes
\* on to ask for citations: the arxiv branch its chain, the others Google Scholar
WantsCitations(src, info, use_google_scholar_citations) ==
    CASE src = "arxiv" -> info.some /\ info.citations = NA
      [] src = "openreview" ->
            /\ info.some /\ Truthy(info.title)
            /\ (use_google_scholar_citations \/ info.citations = NA)
      [] OTHER -> info.some /\ use_google_scholar_citations /\ Truthy(info.title)

\* a bug: the check "if not paper_info: ... sys.exit(1)" is missing, so the
\* formatter's own error text is printed as the result
AfterPrimary_NoExit(info) ==
    /\ paper_info' = info
    /\ primary_info' = info
    /\ pc' = IF ~WantsCitations(source, info, args.use_google_scholar_citations)
             THEN "output"
             ELSE IF source = "arxiv" THEN "first_citation" ELSE "scholar_update"
    /\ UNCHANGED <<stdout, stderr, exit_status>>

\* main after the primary adapter returned info
AfterPrimary(info) ==
    /\ paper_info' = info
    /\ primary_info' = info
    /\ IF ~info.some
       THEN Fail("Error: Could not fetch paper information") /\ UNCHANGED stdout
       ELSE /\ pc' = IF ~WantsCitations(source, info, args.use_google_scholar_citations)
                     THEN "output"
                     ELSE IF source = "arxiv" THEN "first_citation" ELSE "scholar_update"
            /\ UNCHANGED <<stdout, stderr, exit_status>>

\* fetch_arxiv_info, first half: fetch_arxiv_info_from_web
FetchArxivWeb ==
    /\ pc = "fetch"
    /\ source = "arxiv"
    /\ \E info \in ArxivWebResults :
         /\ calls' = Append(calls, Request("fetch_arxiv_info_from_web", "arxiv.org", PyNone))
         /\ IF info.some
            THEN AfterPrimary(info)
            ELSE /\ pc' = "arxiv_api"
                 /\ UNCHANGED <<paper_info, primary_info, stdout, stderr, exit_status>>
    /\ UNCHANGED <<args, source, fn_vars>>

\* fetch_arxiv_info, second half: the API, tried when the page gave nothing
FetchArxivApi ==
    /\ pc = "arxiv_api"
    /\ \E info \in ArxivApiResults :
         /\ calls' = Append(calls, Request("fetch_arxiv_info", "export.arxiv.org", PyNone))
         /\ AfterPrimary(info)
    /\ UNCHANGED <<args, source, fn_vars>>

\* one request of a citation source of the arxiv branch; the value it returns
AskCitationSource(src, citations) ==
    IF src = "google_scholar"
    THEN /\ citations \in GoogleScholarCitationResults
         /\ calls' = Append(calls, Request("get_citations_from_google_scholar", GS, citations))
    ELSE /\ \E resp \in SemanticScholarCitationPayloads :
              citations = get_citations_from_semantic_scholar(resp)
         /\ calls' = Append(calls, Request("get_citations_from_semantic_scholar", SS, citations))

CitationValues ==
    GoogleScholarCitationResults
    \cup {get_citations_from_semantic_scholar(resp) : resp \in SemanticScholarCitationPayloads}

\* arxiv branch: the first source of the selected order
FirstCitation ==
    /\ pc = "first_citation"
    /\ \E citations \in CitationValues :
         /\ AskCitationSource(CitationOrder(args.use_google_scholar_citations)[1], citations)
         /\ paper_info' = Updated(paper_info, citations)
         /\ pc' = AfterFirstCitation(citations)
    /\ UNCHANGED <<args, source, primary_info, stdout, stderr, exit_status, fn_vars>>

\* arxiv branch: the second source, asked when the first gave 'N/A'
SecondCitation ==
    /\ pc = "second_citation"
    /\ \E citations \in CitationValues :
         /\ AskCitationSource(CitationOrder(args.use_google_scholar_citations)[2], citations)
         /\ paper_info' = Updated(paper_info, citations)
         /\ pc' = "output"
    /\ UNCHANGED <<args, source, primary_info, stdout, stderr, exit_status, fn_vars>>

\* get_semantic_scholar_info, for a Semantic Scholar link and for a DOI
FetchSemanticScholar ==
    /\ pc = "fetch"
    /\ source \in {"semantic_scholar", "doi"}
    /\ \E resp \in SemanticScholarInfoPayloads :
         /\ calls' = Append(calls, Request("get_semantic_scholar_info", SS, PyNone))
         /\ AfterPrimary(get_semantic_scholar_info(resp))
    /\ UNCHANGED <<args, source, fn_vars>>

\* fetch_openreview_info up to its citation lookup.  A falsy title makes
\* get_citations_from_semantic_scholar return 'N/A' without a request.
FetchOpenReview ==
    /\ pc = "fetch"
    /\ source = "openreview"
    /\ \E resp \in OpenReviewPayloads :
         /\ calls' = Append(calls, Request("fetch_openreview_info", "api.openreview.net", PyNone))
         /\ IF ~resp.ok THEN AfterPrimary(NoInfo)
            ELSE IF ~Truthy(OpenReviewTitle(resp)) THEN AfterPrimary(OpenReviewInfo(resp, NA))
            ELSE /\ paper_info' = OpenReviewInfo(resp, NA)
                 /\ pc' = "openreview_citations"
                 /\ UNCHANGED <<primary_info, stdout, stderr, exit_status>>
    /\ UNCHANGED <<args, source, fn_vars>>

\* fetch_openreview_info: citations = get_citations_from_semantic_scholar(title=title)
OpenReviewCitations ==
    /\ pc = "openreview_citations"
    /\ \E resp \in SemanticScholarCitationPayloads :
         LET citations == get_citations_from_semantic_scholar(resp)
         IN  /\ calls' = Append(calls, Request("get_citations_from_semantic_scholar", SS, citations))
             /\ AfterPrimary([paper_info EXCEPT !.citations = citations])
    /\ UNCHANGED <<args, source, fn_vars>>

\* the Google Scholar update of the semantic_scholar, openreview and doi branches
ScholarUpdate ==
    /\ pc = "scholar_update"
    /\ \E gs_citations \in GoogleScholarCitationResults :
         /\ calls' = Append(calls, Request("get_citations_from_google_scholar", GS, gs_citations))
         /\ paper_info' = Updated(paper_info, gs_citations)
    /\ pc' = "output"
    /\ UNCHANGED <<args, source, primary_info, stdout, stderr, exit_status, fn_vars>>

\* output = format_output(paper_info, max_authors=args.max_authors); print(output)
Output ==
    /\ pc = "output"
    /\ PrintAndExit(paper_info)
    /\ UNCHANGED <<args, source, paper_info, primary_info, calls, fn_vars>>

Next ==
    \/ TestMode
    \/ GoogleScholarMode
    \/ ParseUrl
    \/ FetchArxivWeb
    \/ FetchArxivApi
    \/ FirstCitation
    \/ SecondCitation
    \/ FetchSemanticScholar
    \/ FetchOpenReview
    \/ OpenReviewCitations
    \/ ScholarUpdate
    \/ Output

Spec == Init /\ [][Next]_vars

-----------------------------------------------------------------------------
(* Properties of main() *)

Done == pc = "done"

IsInt(v) == v.t = "int"

GoogleCitations == "get_citations_from_google_scholar"

SemanticCitations == "get_citations_from_semantic_scholar"

\* the request function of a citation source of CitationOrder
SourceFn(src) == IF src = "google_scholar" THEN GoogleCitations ELSE SemanticCitations

\* positions in calls of the requests made by function fn
CallsOf(fn) == {i \in 1..Len(calls) : calls[i].fn = fn}

\* Positions of the citation requests main itself makes once the primary adapter
\* has returned (the lookup fetch_openreview_info makes belongs to the adapter).
EnrichmentCalls ==
    {i \in 1..Len(calls) :
        /\ calls[i].fn \in {GoogleCitations, SemanticCitations}
        /\ ~(source = "openreview" /\ calls[i].fn = SemanticCitations)}

FirstEnrichment == CHOOSE i \in EnrichmentCalls : \A j \in EnrichmentCalls : i <= j

PrimaryNA == primary_info.some /\ primary_info.citations = NA

UseGS == args.use_google_scholar_citations

C2_Original ==
    /\ EnrichmentCalls # {} => primary_info.citations \in {NA, PyNone}
    /\ (primary_info.some /\ IsInt(primary_info.citations))
       => paper_info.citations = primary_info.citations /\ EnrichmentCalls = {}

OverridingBranch == UseGS /\ source \in {"semantic_scholar", "openreview", "doi"}

\* C2 as amended: in the arxiv branch under both settings of the flag, and in
\* every branch when the flag is not set, main asks a citation source only when
\* the primary record's citations is 'N/A', and an integer count from the primary
\* adapter is kept and followed by no citation request.  With the flag set the
\* semantic_scholar, openreview and doi branches ask Google Scholar whenever the
\* primary record has a non-empty title, whatever its citations, and an answer
\* other than 'N/A' replaces the primary count.
C2_EnrichOnlyWhenMissing ==
    /\ ~OverridingBranch =>
         /\ EnrichmentCalls # {} => PrimaryNA
         /\ (primary_info.some /\ IsInt(primary_info.citations))
            => paper_info.citations = primary_info.citations /\ EnrichmentCalls = {}
    /\ (OverridingBranch /\ primary_info.some /\ pc \in {"output", "done"}) =>
         IF Truthy(primary_info.title)
         THEN /\ Cardinality(EnrichmentCalls) = 1
              /\ calls[FirstEnrichment].fn = GoogleCitations
              /\ paper_info.citations =
                   IF calls[FirstEnrichment].ret # NA THEN calls[FirstEnrichment].ret
                   ELSE primary_info.citations
         ELSE EnrichmentCalls = {} /\ paper_info.citations = primary_info.citations

C2_Witness ==
    /\ Done /\ exit_status = 0 /\ stdout # <<>>
    /\ ~UseGS /\ source = "openreview"
    /\ IsInt(primary_info.citations)
    /\ paper_info.citations = primary_info.citations
    /\ EnrichmentCalls = {}

BothAsked == CallsOf(GoogleCitations) # {} /\ CallsOf(SemanticCitations) # {}

GoogleBeforeSemantic ==
    \A i \in CallsOf(GoogleCitations) : \A j \in CallsOf(SemanticCitations) : i < j

SemanticBeforeGoogle ==
    \A i \in CallsOf(GoogleCitations) : \A j \in CallsOf(SemanticCitations) : j < i

\* C3 as claimed: in every invocation that asks both citation sources, Google
\* Scholar is asked before Semantic Scholar when the flag is set and Semantic
\* Scholar before Google Scholar when it is not, whatever the source kind.
C3_Original ==
    BothAsked => IF UseGS THEN GoogleBeforeSemantic ELSE SemanticBeforeGoogle

\* C3 as amended: the order is caller-selectable in the arxiv branch only: an
\* arxiv invocation that asks both citation sources asks Google Scholar first
\* when the flag is set and Semantic Scholar first when it is not.  An openreview
\* invocation asks Semantic Scholar (inside its adapter) before Google Scholar
\* under both settings, and the other branches never ask both.
C3_SelectableOrder ==
    BothAsked =>
        /\ source \in {"arxiv", "openreview"}
        /\ source = "arxiv" => IF UseGS THEN GoogleBeforeSemantic ELSE SemanticBeforeGoogle
        /\ source = "openreview" => SemanticBeforeGoogle

C3_Witness ==
    /\ Done /\ source = "arxiv" /\ UseGS /\ BothAsked
    /\ calls[Len(calls)].fn = SemanticCitations

TreatedAsTitle == CallsOf("search_google_scholar") # {}

\* C5 as claimed: the input is searched as a title only when no URL pattern
\* matches it and title-search mode is requested; and when no pattern matches and
\* title-search mode is not requested the invocation ends with no request made,
\* nothing on standard output and a non-zero exit status.
C5_Original ==
    /\ TreatedAsTitle => args.url.matches = {} /\ args.google_scholar
    /\ (Done /\ args.url.matches = {} /\ ~args.google_scholar)
       => calls = <<>> /\ stdout = <<>> /\ exit_status # 0

\* C5 as amended: the input is searched as a title exactly when title-search mode
\* is requested and test mode is not, whether or not a URL pattern matches it;
\* when neither test mode nor title-search mode is requested and no pattern
\* matches, the invocation ends as unrecognized with no request made, nothing on
\* standard output, a diagnostic on the error stream and a non-zero exit status.
C5_TitleOrUnrecognized ==
    /\ TreatedAsTitle => args.google_scholar /\ ~args.test
    /\ (Done /\ args.google_scholar /\ ~args.test) => TreatedAsTitle /\ source = NoSource
    /\ (pc # "start" /\ args.url.matches = {} /\ ~args.google_scholar /\ ~args.test)
       => Done /\ calls = <<>> /\ stdout = <<>> /\ stderr # <<>> /\ exit_status = 1

C5_Witness ==
    /\ Done /\ args.url.matches = {} /\ ~args.google_scholar /\ ~args.test
    /\ calls = <<>> /\ stdout = <<>> /\ exit_status = 1

\* C6: whenever the primary source adapter returned a record, the finished
\* invocation has printed exactly one line and has exit status 0.
C6_PartialSuccess ==
    (Done /\ primary_info.some) => Len(stdout) = 1 /\ exit_status = 0

\* C7: no remote host is requested twice within one invocation.
C7_NoRetries ==
    \A i, j \in 1..Len(calls) : i # j => calls[i].host # calls[j].host

C7_Witness ==
    /\ Done /\ source = "arxiv" /\ Len(calls) = 4
    /\ calls[1].host = "arxiv.org" /\ calls[2].host = "export.arxiv.org"
    /\ calls[3].ret = NA

LastSpace(line) ==
    CHOOSE k \in 0..Len(line) :
        /\ k > 0 => line[k] = " "
        /\ \A j \in (k + 1)..Len(line) : line[j] # " "

\* the text the printed line shows after "Citations: "
RenderedCitations(line) == SubSeq(line, LastSpace(line) + 1, Len(line))

IsBareInteger(s) == s # <<>> /\ \A i \in 1..Len(s) : s[i] \in Digits

\* C8: the record handed to the formatter has a string title, a list of author
\* names, string year and venue and citations that is an integer or 'N/A', and
\* the printed line shows the citations as a bare integer or as N/A.
C8_FullyPopulated ==
    /\ (pc = "output" \/ (Done /\ stdout # <<>>)) =>
         /\ paper_info.some
         /\ paper_info.title.t = "str"
         /\ \A i \in 1..Len(paper_info.authors) : paper_info.authors[i].t = "str"
         /\ paper_info.year.t = "str"
         /\ paper_info.venue.t = "str" /\ paper_info.venue.s # <<>>
         /\ IsInt(paper_info.citations) \/ paper_info.citations = NA
    /\ \A k \in 1..Len(stdout) :
         \/ RenderedCitations(stdout[k]) = S_NA
         \/ IsBareInteger(RenderedCitations(stdout[k]))

-----------------------------------------------------------------------------
(* format_authors called on its own *)

NameSamples ==
    {Name1, Name2, Name3,
     PyStr(<<"S", "a", "m", "m", "y", " ", "D", "a", "v", "i", "s", " ", "J", "r", ".">>),
     PyStr(<<" ", "A", "d", "a", " ", " ", "L", "o", "v", "e", "l", "a", "c", "e">>)}

AuthorInputs ==
    UNION {[1..n -> NameSamples] : n \in 0..MaxListLen}
    \cup {TestAuthors1, TestAuthors2, TestAuthors3}

MainIdle ==
    /\ args = [url |-> [matches |-> {}, test_id |-> "-"], max_authors |-> 0, test |-> FALSE,
               google_scholar |-> FALSE, use_google_scholar_citations |-> FALSE]
    /\ pc = "idle"
    /\ source = NoSource
    /\ paper_info = NoInfo
    /\ primary_info = NoInfo
    /\ calls = <<>>
    /\ stdout = <<>>
    /\ stderr = <<>>
    /\ exit_status = 0

InitFmt ==
    /\ MainIdle
    /\ fn_pc = "call"
    /\ fn_authors \in AuthorInputs
    /\ fn_max \in 0..MaxAuthorsArg
    /\ fn_result = <<>>

\* format_authors(fn_authors, max_authors=fn_max) returns
CallFormatAuthors ==
    /\ fn_pc = "call"
    /\ fn_result' = format_authors(fn_authors, fn_max)
    /\ fn_pc' = "returned"
    /\ UNCHANGED <<main_vars, fn_authors, fn_max>>

NextFmt == CallFormatAuthors

SpecFmt == InitFmt /\ [][NextFmt]_vars



-----------------------------------------------------------------------------
(* Properties of format_authors *)

Returned == fn_pc = "returned"

\* " I." for each given name, in order
RECURSIVE GivenInitials(_, _)
GivenInitials(tokens, i) ==
    IF i >= Len(tokens) THEN <<>>
    ELSE <<" ", tokens[i][1], ".">> \o GivenInitials(tokens, i + 1)

\* "LastName, I. I." for a name of several tokens, the name itself otherwise
DisplayName(name) ==
    LET tokens == split(name)
    IN  IF Len(tokens) >= 2
        THEN tokens[Len(tokens)] \o <<",">> \o GivenInitials(tokens, 1)
        ELSE name

\* "A", "A and B", "A, B, and C", ...
RECURSIVE CommaList(_, _)
CommaList(names, i) ==
    IF i = Len(names) THEN <<"a", "n", "d", " ">> \o DisplayName(names[i].s)
    ELSE DisplayName(names[i].s) \o <<",", " ">> \o CommaList(names, i + 1)

DisplayList(names) ==
    IF Len(names) = 1 THEN DisplayName(names[1].s)
    ELSE IF Len(names) = 2
         THEN DisplayName(names[1].s) \o <<" ", "a", "n", "d", " ">> \o DisplayName(names[2].s)
         ELSE CommaList(names, 1)

Periods(k) == [i \in 1..k |-> "."]

EndsWithPeriod(s) == s # <<>> /\ s[Len(s)] = "."

S_VaswaniEtAl ==
    <<"V", "a", "s", "w", "a", "n", "i", ",", " ", "A", ".", " ", "e", "t", " ", "a", "l">>

S_RadfordAndKim ==
    <<"R", "a", "d", "f", "o", "r", "d", ",", " ", "A", ".", " ", "a", "n", "d", " ",
      "K", "i", "m", ",", " ", "J", ".", " ", "W">>

Truncates == fn_authors # <<>> /\ Len(fn_authors) > fn_max

Joins == Len(fn_authors) >= 1 /\ Len(fn_authors) <= fn_max

\* C9: for a non-empty author list longer than max_authors, format_authors returns
\* the first author's display name ("LastName, I. I." for a name of several
\* tokens, the name itself otherwise) followed by " et al", with no period after
\* it and whatever the other authors are; the eight authors of test paper 1 with
\* max_authors = 3 give "Vaswani, A. et al".
C9_Truncation ==
    (Returned /\ Truncates) =>
        /\ fn_result = DisplayName(fn_authors[1].s) \o <<" ", "e", "t", " ", "a", "l">>
        /\ ~EndsWithPeriod(fn_result)
        /\ (fn_authors = TestAuthors1 /\ fn_max = 3) => fn_result = S_VaswaniEtAl

C9_Witness ==
    /\ Returned /\ fn_authors = TestAuthors1 /\ fn_max = 3
    /\ fn_result = S_VaswaniEtAl

\* C10 as claimed: for an author list of length 1..max_authors, format_authors
\* returns the display names ("LastName, I. I.", the period after the last
\* initial included) joined by " and " for two authors and in the form
\* "A, B, and C" for three or more; ["Alec Radford", "Jong Wook Kim"] with
\* max_authors = 3 gives "Radford, A. and Kim, J. W.".
C10_Original ==
    (Returned /\ Joins) =>
        /\ fn_result = DisplayList(fn_authors)
        /\ (fn_authors = <<Name1, Name2>> /\ fn_max = 3)
           => fn_result = S_RadfordAndKim \o <<".">>

\* C10 as amended: for an author list of length 1..max_authors, format_authors
\* returns that joined text with every trailing period removed (the period is
\* added by format_output), so the last author's final initial carries none;
\* ["Alec Radford", "Jong Wook Kim"] with max_authors = 3 gives
\* "Radford, A. and Kim, J. W".
C10_Joining ==
    (Returned /\ Joins) =>
        /\ ~EndsWithPeriod(fn_result)
        /\ \E k \in 0..Len(DisplayList(fn_authors)) :
             fn_result \o Periods(k) = DisplayList(fn_authors)
        /\ (fn_authors = <<Name1, Name2>> /\ fn_max = 3) => fn_result = S_RadfordAndKim

C10_Witness ==
    /\ Returned /\ fn_authors = <<Name1, Name2>> /\ fn_max = 3
    /\ fn_result = S_RadfordAndKim

-----------------------------------------------------------------------------
(* format_output called on its own, and through test mode *)

\* fully populated records: every field a concrete value or its sentinel
RecordInputs ==
    {get_test_paper_info(id) : id \in TestIds}
    \cup {Info(PyStr(title), authors, year, venue, citations) :
            title \in {S_Paper, S_Unknown},
            authors \in {a \in AuthorInputs : Len(a) <= 2} \cup AuthorSamples,
            year \in {NA, PyStr(S_2017)},
            venue \in {PyStr(S_Unknown), PyStr(S_ICLR)},
            citations \in {NA, PyInt(0), PyInt(42)}}

\* either a stand-alone call format_output(paper_info, max_authors=fn_max) is
\* about to be made, or main() starts in test mode
InitOut ==
    \/ /\ args = [url |-> [matches |-> {}, test_id |-> "-"], max_authors |-> 0, test |-> FALSE,
                  google_scholar |-> FALSE, use_google_scholar_citations |-> FALSE]
       /\ pc = "idle"
       /\ source = NoSource
       /\ paper_info \in RecordInputs
       /\ primary_info = NoInfo
       /\ calls = <<>>
       /\ stdout = <<>>
       /\ stderr = <<>>
       /\ exit_status = 0
       /\ fn_pc = "call"
       /\ fn_authors = <<>>
       /\ fn_max \in 0..MaxAuthorsArg
       /\ fn_result = <<>>
    \/ /\ Init
       /\ args.test

\* format_output(paper_info, max_authors=fn_max) returns
CallFormatOutput ==
    /\ fn_pc = "call"
    /\ pc = "idle"
    /\ fn_result' = format_output(paper_info, fn_max)
    /\ fn_pc' = "returned"
    /\ UNCHANGED <<main_vars, fn_authors, fn_max>>

NextOut ==
    \/ CallFormatOutput
    \/ TestMode

SpecOut == InitOut /\ [][NextOut]_vars

S_TestLine1 ==
    <<"*", "*", "A", "t", "t", "e", "n", "t", "i", "o", "n", " ", "I", "s", " ", "A", "l",
      "l", " ", "Y", "o", "u", " ", "N", "e", "e", "d", "*", "*", " ", "V", "a", "s", "w",
      "a", "n", "i", ",", " ", "A", ".", " ", "e", "t", " ", "a", "l", ".", " ", "2", "0",
      "1", "7", ".", " ", "N", "e", "u", "r", "I", "P", "S", ".", " ", "C", "i", "t", "a",
      "t", "i", "o", "n", "s", ":", " ", "9", "8", "2", "3", "4">>

\* the author text of the line: format_authors's result, "Unknown Authors" for
\* an empty list
AuthorText(authors, max_authors) ==
    IF authors = <<>> THEN S_UnknownAuthors ELSE format_authors(authors, max_authors)

\* a citation count as the line shows it
CitationText(citations) == IF citations = NA THEN S_NA ELSE Decimal(citations.n)

\* the pieces of "**{title}** {authors}. {year}. {venue}. Citations: {citations}"
Template(info, max_authors) ==
    <<<<"*", "*">>, info.title.s, <<"*", "*", " ">>,
      AuthorText(info.authors, max_authors), <<".", " ">>,
      info.year.s, <<".", " ">>,
      info.venue.s, <<".", " ">>,
      <<"C", "i", "t", "a", "t", "i", "o", "n", "s", ":", " ">>,
      CitationText(info.citations)>>

RECURSIVE Concat(_)
Concat(pieces) == IF pieces = <<>> THEN <<>> ELSE pieces[1] \o Concat(Tail(pieces))

\* C11: for every fully populated record format_output returns exactly
\* "**{title}** {authors}. {year}. {venue}. Citations: {citations}", {authors}
\* being format_authors's text ("Unknown Authors" for an empty list), which never
\* ends in a period itself, so exactly one period separates it from the year;
\* test paper 1 with max_authors = 3 gives, and test mode prints, exactly
\* "**Attention Is All You Need** Vaswani, A. et al. 2017. NeurIPS. Citations: 98234".
C11_FinalAssembly ==
    /\ (fn_pc = "returned" /\ pc = "idle") =>
         /\ fn_result = Concat(Template(paper_info, fn_max))
         /\ ~EndsWithPeriod(AuthorText(paper_info.authors, fn_max))
         /\ (paper_info = get_test_paper_info("1") /\ fn_max = 3) => fn_result = S_TestLine1
    /\ (Done /\ args.test /\ args.url.test_id \in TestIds) =>
         /\ stdout = <<Concat(Template(get_test_paper_info(args.url.test_id), args.max_authors))>>
         /\ exit_status = 0
         /\ (args.url.test_id = "1" /\ args.max_authors = 3) => stdout = <<S_TestLine1>>

C11_Witness ==
    /\ Done /\ args.test /\ args.url.test_id = "1" /\ args.max_authors = 3
    /\ stdout = <<S_TestLine1>>

-----------------------------------------------------------------------------
(* parse_url called on its own, on concrete strings *)

LowerChars ==
    {"a", "b", "c", "d", "e", "f", "g", "h", "i", "j", "k", "l", "m"}
    \cup {"n", "o", "p", "q", "r", "s", "t", "u", "v", "w", "x", "y", "z"}

UpperChars ==
    {"A", "B", "C", "D", "E", "F", "G", "H", "I", "J", "K", "L", "M"}
    \cup {"N", "O", "P", "Q", "R", "S", "T", "U", "V", "W", "X", "Y", "Z"}

\* [a-f0-9]
HexChars == {"a", "b", "c", "d", "e", "f"} \cup Digits

\* [A-Za-z0-9_\-]
IdChars == LowerChars \cup UpperChars \cup Digits \cup {"_", "-"}

\* the literal lit stands in s at position i
HasAt(s, i, lit) == i + Len(lit) - 1 <= Len(s) /\ SubSeq(s, i, i + Len(lit) - 1) = lit

\* s has a character of class at position i
In(s, i, class) == i >= 1 /\ i <= Len(s) /\ s[i] \in class

\* the position after the longest run of characters of class that starts at i
RECURSIVE RunEnd(_, _, _)
RunEnd(s, i, class) == IF In(s, i, class) THEN RunEnd(s, i + 1, class) ELSE i

\* \d+\.\d+ matches at q
NumberDotNumberAt(s, q) ==
    LET e == RunEnd(s, q, Digits)
    IN  e > q /\ In(s, e, {"."}) /\ In(s, e + 1, Digits)

\* arxiv\.org/(?:abs|pdf)/(\d+\.\d+) matches at p
ArxivPatternAt(s, p) ==
    \E lit \in {<<"a", "r", "x", "i", "v", ".", "o", "r", "g", "/", "a", "b", "s", "/">>,
                <<"a", "r", "x", "i", "v", ".", "o", "r", "g", "/", "p", "d", "f", "/">>} :
        HasAt(s, p, lit) /\ NumberDotNumberAt(s, p + Len(lit))

S_SemanticScholarPaper ==
    <<"s", "e", "m", "a", "n", "t", "i", "c", "s", "c", "h", "o", "l", "a", "r", ".", "o", "r", "g", "/", "p", "a", "p", "e", "r", "/">>

\* semanticscholar\.org/paper/(?:[^/]+/)?([a-f0-9]+) matches at p
SemanticScholarPatternAt(s, p) ==
    /\ HasAt(s, p, S_SemanticScholarPaper)
    /\ LET q == p + Len(S_SemanticScholarPaper)
       IN  \/ In(s, q, HexChars)
           \/ \E j \in (q + 1)..Len(s) :
                /\ s[j] = "/"
                /\ \A k \in q..(j - 1) : s[k] # "/"
                /\ In(s, j + 1, HexChars)

\* openreview\.net/(?:forum|pdf)\?id=([A-Za-z0-9_\-]+) matches at p
OpenReviewPatternAt(s, p) ==
    \E lit \in {<<"o", "p", "e", "n", "r", "e", "v", "i", "e", "w", ".", "n", "e", "t", "/", "f", "o", "r", "u", "m", "?", "i", "d", "=">>,
                <<"o", "p", "e", "n", "r", "e", "v", "i", "e", "w", ".", "n", "e", "t", "/", "p", "d", "f", "?", "i", "d", "=">>} :
        HasAt(s, p, lit) /\ In(s, p + Len(lit), IdChars)

S_DoiOrg10 == <<"d", "o", "i", ".", "o", "r", "g", "/", "1", "0", ".">>

\* doi\.org/(10\.\d+/[^\s]+) matches at p
DoiPatternAt(s, p) ==
    /\ HasAt(s, p, S_DoiOrg10)
    /\ LET q == p + Len(S_DoiOrg10)
           e == RunEnd(s, q, Digits)
       IN  e > q /\ In(s, e, {"/"}) /\ e + 1 <= Len(s) /\ s[e + 1] \notin Whitespace

\* re.search(pattern, s) finds a match, pattern named by its source
re_search(pattern, s) ==
    \E p \in 1..Len(s) :
        CASE pattern = "arxiv" -> ArxivPatternAt(s, p)
          [] pattern = "semantic_scholar" -> SemanticScholarPatternAt(s, p)
          [] pattern = "openreview" -> OpenReviewPatternAt(s, p)
          [] OTHER -> DoiPatternAt(s, p)

\* the input string s as parse_url sees it
UrlInput(s) ==
    [matches |-> {pattern \in PatternNames : re_search(pattern, s)}, test_id |-> "-", text |-> s]

UrlSchemes == {<<>>, <<"h", "t", "t", "p", "s", ":", "/", "/">>}

UrlBodies ==
    {<<"a", "r", "x", "i", "v", ".", "o", "r", "g", "/", "a", "b", "s", "/", "1", "7", "0", "6", ".", "0", "3", "7", "6", "2">>,
     <<"a", "r", "x", "i", "v", ".", "o", "r", "g", "/", "p", "d", "f", "/", "2", "1", "0", "3", ".", "1">>,
     <<"a", "r", "x", "i", "v", ".", "o", "r", "g", "/", "a", "b", "s", "/", "q", "u", "a", "n", "t", "-", "p", "h">>,
     <<"s", "e", "m", "a", "n", "t", "i", "c", "s", "c", "h", "o", "l", "a", "r", ".", "o", "r", "g", "/", "p", "a", "p", "e", "r", "/", "T", "i", "t", "l", "e", "/", "2", "0", "4", "e", "3">>,
     <<"s", "e", "m", "a", "n", "t", "i", "c", "s", "c", "h", "o", "l", "a", "r", ".", "o", "r", "g", "/", "p", "a", "p", "e", "r", "/", "z", "z">>,
     <<"o", "p", "e", "n", "r", "e", "v", "i", "e", "w", ".", "n", "e", "t", "/", "f", "o", "r", "u", "m", "?", "i", "d", "=", "Y", "i", "c", "b", "_", "F">>,
     <<"o", "p", "e", "n", "r", "e", "v", "i", "e", "w", ".", "n", "e", "t", "/", "p", "d", "f", "?", "i", "d", "=">>,
     <<"d", "o", "i", ".", "o", "r", "g", "/", "1", "0", ".", "1", "1", "4", "5", "/", "3", "2", "9">>,
     <<"d", "o", "i", ".", "o", "r", "g", "/", "1", "1", ".", "1", "/", "x">>,
     <<"e", "x", "a", "m", "p", "l", "e", ".", "c", "o", "m", "/", "p", "a", "p", "e", "r">>}

UrlTails ==
    {<<>>,
     <<" ", "d", "o", "i", ".", "o", "r", "g", "/", "1", "0", ".", "1", "/", "x">>,
     <<"/", "a", "r", "x", "i", "v", ".", "o", "r", "g", "/", "p", "d", "f", "/", "1", ".", "2">>,
     <<"&", "o", "p", "e", "n", "r", "e", "v", "i", "e", "w", ".", "n", "e", "t", "/", "p", "d", "f", "?", "i", "d", "=", "-", "a">>}

UrlSamples == {a \o b \o c : a \in UrlSchemes, b \in UrlBodies, c \in UrlTails}

InitUrl ==
    /\ args \in [url : {UrlInput(s) : s \in UrlSamples}, max_authors : {0}, test : {FALSE},
                 google_scholar : {FALSE}, use_google_scholar_citations : {FALSE}]
    /\ pc = "idle"
    /\ source = NoSource
    /\ paper_info = NoInfo
    /\ primary_info = NoInfo
    /\ calls = <<>>
    /\ stdout = <<>>
    /\ stderr = <<>>
    /\ exit_status = 0
    /\ fn_pc = "call"
    /\ fn_authors = <<>>
    /\ fn_max = 0
    /\ fn_result = <<>>

\* parse_url(args.url) returns; fn_result is the source tag
CallParseUrl ==
    /\ fn_pc = "call"
    /\ pc = "idle"
    /\ fn_result' = parse_url(args.url)
    /\ fn_pc' = "returned"
    /\ UNCHANGED <<main_vars, fn_authors, fn_max>>

NextUrl == CallParseUrl

SpecUrl == InitUrl /\ [][NextUrl]_vars

\* the place of a source in the order arxiv, semantic_scholar, openreview, doi
Priority(tag) ==
    CASE tag = "arxiv" -> 1
      [] tag = "semantic_scholar" -> 2
      [] tag = "openreview" -> 3
      [] tag = "doi" -> 4

\* the patterns that match the input string
Matching == {pattern \in {"arxiv", "semantic_scholar", "openreview", "doi"} :
                re_search(pattern, args.url.text)}

\* C12: parse_url returns the tag of the only pattern that matches the input
\* when exactly one does, the tag of the earliest matching pattern in the order
\* arxiv, semantic_scholar, openreview, doi when several do, and no source
\* exactly when no pattern matches.
C12_FirstMatchWins ==
    (fn_pc = "returned" /\ pc = "idle") =>
        /\ \A tag \in Matching : Matching = {tag} => fn_result = tag
        /\ Matching # {} =>
             /\ fn_result \in Matching
             /\ \A tag \in Matching : Priority(fn_result) <= Priority(tag)
        /\ fn_result = NoSource <=> Matching = {}

C12_Witness ==
    /\ fn_pc = "returned" /\ pc = "idle"
    /\ Matching = {"semantic_scholar", "doi"}
    /\ fn_result = "semantic_scholar"

-----------------------------------------------------------------------------
(* Terminal failure of main() *)

\* the primary adapter of a recognized identifier has returned nothing
PrimaryReturnedNothing ==
    /\ source # NoSource
    /\ ~primary_info.some
    /\ pc \notin {"fetch", "arxiv_api", "openreview_citations"}

\* C13: once the primary source adapter of a recognized identifier has returned
\* nothing, the invocation is over: no citation lookup (Google Scholar or Semantic
\* Scholar) has been or will be requested, main's diagnostic is on the error stream,
\* nothing is on standard output and the exit status is 1.
C13_TerminalFailure ==
    PrimaryReturnedNothing =>
        /\ Done
        /\ CallsOf(GoogleCitations) = {} /\ CallsOf(SemanticCitations) = {}
        /\ stderr = <<"Error: Could not fetch paper information">>
        /\ stdout = <<>>
        /\ exit_status = 1

C13_Witness ==
    /\ PrimaryReturnedNothing /\ Done
    /\ source = "arxiv" /\ Len(calls) = 2
    /\ stdout = <<>> /\ exit_status = 1
=============================================================================
